---- MODULE Spec2Model ----
(***************************************************************************)
(* A model of the ingestion core: the EventRouter (src/core/event_router.py)*)
(* over the Database listen/notify transport (src/core/database.py), and    *)
(* the DeduplicationEngine (src/utils/deduplication.py).                    *)
(*                                                                          *)
(* The program runs on one asyncio event loop: code between two awaits is   *)
(* atomic, so every action below is one await-free stretch of a coroutine.  *)
(***************************************************************************)
EXTENDS Integers, Sequences, FiniteSets, Bags, TLC

VARIABLES
    subscribers,   \* EventRouter.subscribers: insertion-ordered dict, as a sequence of [ch, cbs]
    running,       \* EventRouter.running
    listeners,     \* Database.listeners: the channels holding a transport listen
    entries,       \* the entries of that dict in the order CPython keeps them, deleted ones included
    usable,        \* the entries that dict can still take before it is rebuilt
    sl,            \* the bag of start_listening, cleanup and close_conn calls in progress
    slLast,        \* how the last start_listening call ended
    dispatches,    \* handle_event calls whose tasks are not all finished, in the order of the calls
    ready,         \* the tasks made by create_task and not started yet, in the order the event loop starts them
    lastEvent,     \* what the last handle_event call did, recorded when it returned
    lastCleanup,   \* what the last cleanup() did
    lastEmit,      \* how the last emit call ended
    lastRead,      \* what the last get_active_channels or get_subscriber_count returned
    bucket_minutes,\* DeduplicationEngine.bucket_minutes
    lastSet,       \* how the last set_bucket_interval call ended
    fps,           \* the generate_fingerprint calls made since the width was last set (the last two)
    cache,         \* DeduplicationEngine.cache: cache key -> [time, exists]
    clock,         \* the wall clock that datetime.utcnow() reads, in seconds
    pending,       \* alread_exists calls suspended at their Oracle query
    last,          \* cache key -> the last alread_exists or mark_inserted completed on it
    lastInsert,    \* what the last should_insert returned
    swept,         \* cleanup_old_cache has run at the present reading of the clock
    lastSync       \* what the last get_last_sync_time call was given and returned

routerVars ==
    <<subscribers, running, listeners, entries, usable, sl, slLast, dispatches, ready,
      lastEvent, lastCleanup, lastEmit, lastRead>>

fingerprintVars == <<bucket_minutes, lastSet, fps>>

cacheVars == <<cache, clock, pending, last, lastInsert, swept>>

engineVars == <<fingerprintVars, cacheVars, lastSync>>

vars == <<routerVars, engineVars>>

----------------------------------------------------------------------------
(* Bounds of the router model *)

\* the most subscriptions the registry holds at one time, over all channels
MaxSubs == 2

\* the most callback tasks that are scheduled or not yet collected at one time
MaxTasks == 2

\* the most callback tasks at one time where the order of their starts is followed
MaxInFlight == 4

\* the most callbacks registered, over all channels, where only the registry changes
MaxRegistered == 3

\* start_listening, cleanup and close_conn calls in progress at one time
MaxRuns == 2

\* the most entries of self.listeners, deleted ones included, where callers use the Database
MaxEntries == 6

Channels == {"monitoring_events", "performance_events"}

Callbacks == {"cb1", "cb2"}

(* What the expression callback(data) does at event_router.py:56.  A        *)
(* coroutine function returns a coroutine without running its body; a plain *)
(* callable runs at once, and either raises or returns something that       *)
(* asyncio.create_task rejects with TypeError.                              *)
CallOutcomes == {"coroutine", "sync_raise", "not_awaitable"}

(* How the task of a coroutine callback ends *)
TaskOutcomes == {"done", "raised"}

(* Payload texts handed to handle_event, by their JSON shape *)
Payloads == {"object", "array", "malformed"}

----------------------------------------------------------------------------
(* The ordered dict self.subscribers *)

RECURSIVE KeyIndex(_, _, _)
KeyIndex(reg, ch, i) ==
    IF i > Len(reg) THEN 0
    ELSE IF reg[i].ch = ch THEN i
    ELSE KeyIndex(reg, ch, i + 1)

\* channel in self.subscribers
HasChannel(reg, ch) == KeyIndex(reg, ch, 1) # 0

\* self.subscribers[channel]
CallbacksOf(reg, ch) == reg[KeyIndex(reg, ch, 1)].cbs

\* list(self.subscribers.keys())
get_active_channels(reg) == [i \in 1..Len(reg) |-> reg[i].ch]

\* len(self.subscribers.get(channel, []))
get_subscriber_count(reg, ch) ==
    IF HasChannel(reg, ch) THEN Len(CallbacksOf(reg, ch)) ELSE 0

\* self.subscribers[channel] = cbs, keeping the key's position
SetCallbacks(reg, ch, cbs) ==
    [i \in 1..Len(reg) |-> IF reg[i].ch = ch THEN [ch |-> ch, cbs |-> cbs] ELSE reg[i]]

RECURSIVE IndexOf(_, _, _)
IndexOf(s, x, i) ==
    IF i > Len(s) THEN 0
    ELSE IF s[i] = x THEN i
    ELSE IndexOf(s, x, i + 1)

\* a removal that takes the last occurrence of x
ListRemoveLast(s, x) ==
    LET k == CHOOSE j \in 1..Len(s) : s[j] = x /\ \A l \in (j + 1)..Len(s) : s[l] # x
    IN  [i \in 1..(Len(s) - 1) |-> IF i < k THEN s[i] ELSE s[i + 1]]

\* list.remove(x) on a list that holds x: the first occurrence goes
ListRemove(s, x) ==
    LET k == IndexOf(s, x, 1)
    IN  [i \in 1..(Len(s) - 1) |-> IF i < k THEN s[i] ELSE s[i + 1]]

\* the registry after subscribe(channel, callback)
SubscribeResult(reg, ch, cb) ==
    LET withKey == IF HasChannel(reg, ch) THEN reg
                   ELSE Append(reg, [ch |-> ch, cbs |-> <<>>])
    IN  SetCallbacks(withKey, ch, Append(CallbacksOf(withKey, ch), cb))

\* the registry after unsubscribe(channel, callback)
UnsubscribeResult(reg, ch, cb) ==
    IF HasChannel(reg, ch) /\ IndexOf(CallbacksOf(reg, ch), cb, 1) # 0
    THEN SetCallbacks(reg, ch, ListRemove(CallbacksOf(reg, ch), cb))
    ELSE reg

----------------------------------------------------------------------------
(* json.loads(payload) *)

\* a parser that takes every text for a JSON object
JsonLoadsLenient(p) == [ok |-> TRUE, kind |-> "dict"]

JsonLoads(p) ==
    CASE p = "object" -> [ok |-> TRUE,  kind |-> "dict"]
      [] p = "array"  -> [ok |-> TRUE,  kind |-> "list"]
      [] OTHER        -> [ok |-> FALSE, kind |-> ""]

(* What a handle_event call did, recorded when it returns: the payload it   *)
(* was given, the message it logged, the number of callbacks registered on  *)
(* the channel when it was called, how many of them it called and how many  *)
(* of those had run to their end when it returned, and whether it raised to *)
(* its caller (every path of lines 46-68 returns normally).                 *)
EventRecord(p, log, registered, called, finished) ==
    [payload |-> p, log |-> log, registered |-> registered, called |-> called,
     finished |-> finished, raised |-> FALSE]

NoEvent == EventRecord("", "", 0, 0, 0)

NoCleanup ==
    [done |-> FALSE, attempted |-> <<>>, failed |-> {}, raised |-> FALSE]

NoEmit == [result |-> "none", outcome |-> "none", log |-> ""]

NoRead == [op |-> "none"]

RouterInit ==
    /\ subscribers = <<>>
    /\ running = FALSE
    /\ listeners = {}
    /\ entries = <<>>
    /\ usable = 0
    /\ sl = EmptyBag
    /\ slLast = "none"
    /\ dispatches = <<>>
    /\ ready = <<>>
    /\ lastEvent = NoEvent
    /\ lastCleanup = NoCleanup
    /\ lastEmit = NoEmit
    /\ lastRead = NoRead

----------------------------------------------------------------------------
(* subscribe / unsubscribe *)

RECURSIVE TotalSubs(_, _)
TotalSubs(reg, i) ==
    IF i > Len(reg) THEN 0 ELSE Len(reg[i].cbs) + TotalSubs(reg, i + 1)

\* subscribe(channel, callback) while the registry holds fewer than max callbacks
SubscribeUpTo(ch, cb, max) ==
    /\ TotalSubs(subscribers, 1) < max
    /\ subscribers' = SubscribeResult(subscribers, ch, cb)
    /\ UNCHANGED <<running, listeners, entries, usable, sl, slLast, dispatches, ready, lastEvent>>
    /\ UNCHANGED <<lastCleanup, lastEmit>>
    /\ UNCHANGED <<lastRead, engineVars>>

Subscribe(ch, cb) == SubscribeUpTo(ch, cb, MaxSubs)

\* the first subscription to a channel, which adds its key to the registry
SubscribeChannel(ch) == ~HasChannel(subscribers, ch) /\ Subscribe(ch, "cb1")

\* subscribe in a registry that has room for a callback registered three times
SubscribeAgain(ch, cb) == SubscribeUpTo(ch, cb, MaxRegistered)

Unsubscribe(ch, cb) ==
    /\ subscribers' = UnsubscribeResult(subscribers, ch, cb)
    /\ UNCHANGED <<running, listeners, entries, usable, sl, slLast, dispatches, ready, lastEvent>>
    /\ UNCHANGED <<lastCleanup, lastEmit>>
    /\ UNCHANGED <<lastRead, engineVars>>

----------------------------------------------------------------------------
(* handle_event *)

\* the position of the first callback whose call does not yield a coroutine, or 0
RECURSIVE FirstSyncFailure(_, _)
FirstSyncFailure(outs, i) ==
    IF i > Len(outs) THEN 0
    ELSE IF outs[i] # "coroutine" THEN i
    ELSE FirstSyncFailure(outs, i + 1)

Finished(tasks) == Cardinality({i \in 1..Len(tasks) : tasks[i] \in TaskOutcomes})

RECURSIVE TotalTasks(_, _)
TotalTasks(ds, i) ==
    IF i > Len(ds) THEN 0 ELSE Len(ds[i].tasks) + TotalTasks(ds, i + 1)

\* a loop whose tasks are made ahead of the tasks of earlier calls that have not started
CreateTasksAhead(q, n, made) == [i \in 1..made |-> <<n, i>>] \o q

(* asyncio.create_task at line 56, for the first made callbacks of the list *)
(* in the order of the list: each task joins the end of the event loop's    *)
(* queue when it is made, which is during the handle_event call itself      *)
(* (lines 46-56 have no await).  A task is named by its call's place n in   *)
(* dispatches and its callback's place i in the list.                       *)
CreateTasks(q, n, made) == q \o [i \in 1..made |-> <<n, i>>]

(* The loop of lines 54-56 over n callbacks, whose calls do outs, and what  *)
(* follows it: the await of gather when every call gave a coroutine (the    *)
(* dispatch is then in flight), the handler of line 66 when a call raised   *)
(* or create_task refused its value (the tasks made so far stay scheduled,  *)
(* and nobody awaits them).  gather of no task at all is done at once.      *)
FanOut(ch, p, n, outs, max) ==
    LET k == FirstSyncFailure(outs, 1)
        made == IF k = 0 THEN n ELSE k - 1
        d == [ch |-> ch, cbs |-> CallbacksOf(subscribers, ch),
              payload |-> p, registered |-> n,
              tasks |-> [i \in 1..made |-> "scheduled"],
              called |-> IF k = 0 THEN n ELSE k,
              awaited |-> (k = 0)]
    IN  /\ TotalTasks(dispatches, 1) + made <= max
        /\ dispatches' = IF made = 0 THEN dispatches ELSE Append(dispatches, d)
        /\ ready' = CreateTasks(ready, Len(dispatches) + 1, made)
        /\ lastEvent' =
             IF k # 0
             THEN EventRecord(p, IF outs[k] = "sync_raise"
                                 THEN "Error handling event: the callback's exception"
                                 ELSE "Error handling event: a coroutine was expected",
                              n, k, 1)
             ELSE IF made = 0
             THEN EventRecord(p, "Event recieved", 0, 0, 0)
             ELSE lastEvent

\* handle_event(channel, payload) while fewer than max callback tasks are in flight
HandleEventUpTo(ch, p, max) ==
    LET data == JsonLoads(p)
        n == get_subscriber_count(subscribers, ch)
    IN  /\ IF ~data.ok
           THEN /\ lastEvent' = EventRecord(p, "Invalid json payload", n, 0, 0)
                /\ UNCHANGED <<dispatches, ready>>
           ELSE IF ~HasChannel(subscribers, ch)
           THEN /\ lastEvent' = EventRecord(p, "No subscribers for channel", n, 0, 0)
                /\ UNCHANGED <<dispatches, ready>>
           ELSE IF data.kind # "dict"
           THEN \* data.get of line 50 raises AttributeError, caught at line 66
                /\ lastEvent' = EventRecord(p, "Error handling event: no attribute 'get'",
                                            n, 0, 0)
                /\ UNCHANGED <<dispatches, ready>>
           ELSE \E outs \in [1..n -> CallOutcomes] : FanOut(ch, p, n, outs, max)
        /\ UNCHANGED <<subscribers, running, listeners, entries, usable, sl, slLast>>
        /\ UNCHANGED <<lastCleanup, lastEmit>>
    /\ UNCHANGED <<lastRead, engineVars>>

HandleEvent(ch, p) == HandleEventUpTo(ch, p, MaxTasks)

(* An event with a JSON object handed over before any handle_event call    *)
(* has ended, with room for two events to two subscribers at one time       *)
HandleEventInFlight(ch) ==
    lastEvent = NoEvent /\ HandleEventUpTo(ch, "object", MaxInFlight)

RemoveAt(s, k) == [i \in 1..(Len(s) - 1) |-> IF i < k THEN s[i] ELSE s[i + 1]]

\* the queue of the event loop after the call at place k of dispatches has gone
Renumber(q, k) ==
    [j \in 1..Len(q) |-> IF q[j][1] > k THEN <<q[j][1] - 1, q[j][2]>> ELSE q[j]]

(* The event loop starts a task made by create_task at line 56: the         *)
(* callback's coroutine runs to its first suspension.                       *)
StartTask ==
    /\ ready # <<>>
    /\ dispatches' = [dispatches EXCEPT ![Head(ready)[1]].tasks[Head(ready)[2]] = "running"]
    /\ ready' = Tail(ready)
    /\ UNCHANGED <<subscribers, running, listeners, entries, usable, sl, slLast, lastEvent>>
    /\ UNCHANGED <<lastCleanup, lastEmit>>
    /\ UNCHANGED <<lastRead, engineVars>>

(* One started task of a dispatch runs its callback's coroutine to the end. *)
(* The record of a dispatch that nobody awaits goes with its last task.     *)
RunTask(n, i, out) ==
    /\ n \in 1..Len(dispatches)
    /\ i \in 1..Len(dispatches[n].tasks)
    /\ dispatches[n].tasks[i] = "running"
    /\ LET d == [dispatches[n] EXCEPT !.tasks[i] = out]
       IN  IF ~d.awaited /\ Finished(d.tasks) = Len(d.tasks)
           THEN /\ dispatches' = RemoveAt(dispatches, n)
                /\ ready' = Renumber(ready, n)
           ELSE /\ dispatches' = [dispatches EXCEPT ![n] = d]
                /\ ready' = ready
    /\ UNCHANGED <<subscribers, running, listeners, entries, usable, sl, slLast, lastEvent>>
    /\ UNCHANGED <<lastCleanup, lastEmit>>
    /\ UNCHANGED <<lastRead, engineVars>>

(* gather with return_exceptions=True returns once every task is done,      *)
(* whatever each task's end; handle_event returns after it.                 *)
GatherReturn(n) ==
    /\ n \in 1..Len(dispatches)
    /\ dispatches[n].awaited
    /\ Finished(dispatches[n].tasks) = Len(dispatches[n].tasks)
    /\ lastEvent' = EventRecord(dispatches[n].payload, "Event recieved",
                                dispatches[n].registered, dispatches[n].called,
                                Finished(dispatches[n].tasks))
    /\ dispatches' = RemoveAt(dispatches, n)
    /\ ready' = Renumber(ready, n)
    /\ UNCHANGED <<subscribers, running, listeners, entries, usable, sl, slLast>>
    /\ UNCHANGED <<lastCleanup, lastEmit>>
    /\ UNCHANGED <<lastRead, engineVars>>

----------------------------------------------------------------------------
(* start_listening, stop, cleanup *)

(* self.listeners is a dict of CPython, which keeps its entries in an array *)
(* in the order of insertion: del leaves the entry of the key empty, an     *)
(* insertion takes the next free entry, and when none is free the dict is   *)
(* rebuilt without its empty entries, in a table whose size follows from    *)
(* the number of keys it holds: a table of 8 slots with room for 5 entries  *)
(* when it holds none, one of 16 slots with room for 10 entries when it     *)
(* holds one to five.  A new dict and a cleared one have no table.          *)
DictRoom(used) == IF used = 0 THEN 5 ELSE 10

Hole == ""

IsLive(e) == e # Hole

\* self.listeners[channel] = conn, for a channel that has no listen
DictSet(es, free, ch) ==
    LET kept == IF free <= 0 THEN SelectSeq(es, IsLive) ELSE es
        room == IF free <= 0 THEN DictRoom(Len(kept)) - Len(kept) ELSE free
    IN  [es |-> Append(kept, ch), usable |-> room - 1]

\* del self.listeners[channel]
DictDel(es, free, ch) ==
    [es |-> [i \in 1..Len(es) |-> IF es[i] = ch THEN Hole ELSE es[i]], usable |-> free]

\* the dict after a step that added or deleted at most one listen
DictAfter(es, free, old, new) ==
    IF new = old THEN [es |-> es, usable |-> free]
    ELSE IF new \subseteq old THEN DictDel(es, free, CHOOSE ch \in old \ new : TRUE)
    ELSE DictSet(es, free, CHOOSE ch \in new \ old : TRUE)

\* the first entry after position pos that holds a listen, Len(es) + 1 when none does
RECURSIVE Skip(_, _)
Skip(es, pos) ==
    IF pos >= Len(es) THEN Len(es) + 1
    ELSE IF IsLive(es[pos + 1]) THEN pos + 1
    ELSE Skip(es, pos + 1)

(* next() of the iterator of self.listeners.items(), which has passed pos   *)
(* entries, expects left more items and began over used items: it raises    *)
(* RuntimeError when the dict has another size ("size"), ends when no entry *)
(* is left past its position ("stop"), raises RuntimeError when it finds an *)
(* entry it does not expect ("keys"), and yields that entry otherwise.      *)
IterNext(es, pos, left, used) ==
    LET i == Skip(es, pos)
    IN  IF Cardinality({k \in 1..Len(es) : IsLive(es[k])}) # used
        THEN [out |-> "size", pos |-> pos, left |-> left]
        ELSE IF i > Len(es) THEN [out |-> "stop", pos |-> pos, left |-> left]
        ELSE IF left = 0 THEN [out |-> "keys", pos |-> pos, left |-> left]
        ELSE [out |-> "item", pos |-> i, left |-> left - 1]

(* A start_listening, cleanup or close_conn call in progress, held at the   *)
(* await where it is suspended:                                             *)
(*   pc "acquire"  in listen_channel for the key at idx, after the test of  *)
(*                 database.py:103, before the listen is recorded           *)
(*   pc "sleep"    in asyncio.sleep(1) of line 89, after the listen on idx  *)
(*   pc "unlisten" in unlisten_channel for keys[cl], after the test of      *)
(*                 database.py:128, before the listen is deleted            *)
(*   pc "close"    in conn.close() of close_conn, its iterator having       *)
(*                 passed idx entries of self.listeners and expecting cl    *)
(*                 more items                                               *)
(* size is the size of the dict when its iteration began, keys the copy of  *)
(* the keys that cleanup() iterates, failed the keys whose unlisten_channel *)
(* failed so far, error the exception that start_listening raises again     *)
(* after its finally clause.  The calls in progress are a bag: two calls    *)
(* may be at the same place.                                                *)
Call(kind, size) ==
    [kind |-> kind, pc |-> "new", idx |-> 0, size |-> size, keys |-> <<>>, cl |-> 0,
     failed |-> {}, error |-> ""]

Calls == BagToSet(sl)

\* the calls in progress beside co
Others(co) == sl (-) SetToBag({co})

(* The loop of cleanup() from the i-th key of its copy on, up to the next   *)
(* await that suspends: a channel without a listen is skipped without one   *)
(* (database.py:128-130); the loop ends after the last key.                 *)
RECURSIVE CleanupFrom(_, _, _)
CleanupFrom(co, ls, i) ==
    IF i > Len(co.keys) THEN [co EXCEPT !.pc = "done", !.cl = i]
    ELSE IF co.keys[i] \in ls THEN [co EXCEPT !.pc = "unlisten", !.cl = i]
    ELSE CleanupFrom(co, ls, i + 1)

\* a loop that the first failed release ends
CleanupContinueAbort(co, ls, ok) ==
    IF ok THEN CleanupFrom(co, ls, co.cl + 1)
    ELSE [co EXCEPT !.pc = "done", !.cl = co.cl + 1]

(* unlisten_channel has returned, whatever it did (it catches its own       *)
(* failures, database.py:138): the loop goes on with the next key           *)
CleanupContinue(co, ls, ok) == CleanupFrom(co, ls, co.cl + 1)

(* cleanup() begins: list(self.subscribers.keys()) is copied and the loop   *)
(* starts; the for loop of start_listening is over                          *)
BeginCleanup(co, reg, ls, error) ==
    CleanupFrom([co EXCEPT !.keys = get_active_channels(reg), !.error = error,
                           !.idx = 0, !.size = 0], ls, 1)

\* the channels cleanup() called unlisten_channel for, and those it failed on
CleanupRecord(co) ==
    [done |-> TRUE, attempted |-> co.keys, failed |-> co.failed, raised |-> FALSE]

\* an except clause that leaves the running flag as it is
RunningAfterExceptSame(run) == run

\* self.running = False of line 93
RunningAfterExcept(run) == FALSE

(* The for loop of line 81 asks the dict iterator for its i-th key, up to   *)
(* the next await that suspends.  The iterator raises RuntimeError when the *)
(* dict has changed size since the loop began.  listen_channel returns at   *)
(* once for a channel that has a listen; the while loop of line 88 does not *)
(* sleep when running is false.                                             *)
RECURSIVE NextKey(_, _, _, _, _)
NextKey(co, reg, ls, run, i) ==
    IF Len(reg) # co.size THEN [co EXCEPT !.pc = "raise"]
    ELSE IF i > co.size THEN [co EXCEPT !.pc = "end"]
    ELSE IF reg[i].ch \notin ls THEN [co EXCEPT !.pc = "acquire", !.idx = i]
    ELSE IF run THEN [co EXCEPT !.pc = "sleep", !.idx = i]
    ELSE NextKey(co, reg, ls, run, i + 1)

(* start_listening goes on from its i-th key: to the next await of the      *)
(* loop, or through the except clause (lines 90-94) and into the cleanup()  *)
(* of the finally clause (lines 95-96).                                     *)
Proceed(co, reg, ls, run, i) ==
    LET c == NextKey(co, reg, ls, run, i)
    IN  IF c.pc = "raise"
        THEN [co |-> BeginCleanup(c, reg, ls, "RuntimeError"), run |-> RunningAfterExcept(run)]
        ELSE IF c.pc = "end"
        THEN [co |-> BeginCleanup(c, reg, ls, ""), run |-> run]
        ELSE [co |-> c, run |-> run]

(* A call has run to its next await, where it joins the other calls in      *)
(* progress, or to its end: a cleanup() that ends is recorded, and with it  *)
(* the start_listening call whose finally clause ran it.                    *)
Settle(others, co, run, ls) ==
    /\ running' = run
    /\ listeners' = ls
    /\ entries' = DictAfter(entries, usable, listeners, ls).es
    /\ usable' = DictAfter(entries, usable, listeners, ls).usable
    /\ IF co.pc = "done"
       THEN /\ sl' = others
            /\ lastCleanup' = CleanupRecord(co)
            /\ slLast' = IF co.kind # "start_listening" THEN slLast
                         ELSE IF co.error = "" THEN "returned"
                         ELSE co.error
       ELSE /\ sl' = others (+) SetToBag({co})
            /\ UNCHANGED <<lastCleanup, slLast>>

\* cleanup(), called by itself
Cleanup ==
    /\ BagCardinality(sl) < MaxRuns
    /\ Settle(sl, BeginCleanup(Call("cleanup", 0), subscribers, listeners, ""),
              running, listeners)
    /\ UNCHANGED <<subscribers, dispatches, ready, lastEvent, lastEmit>>
    /\ UNCHANGED <<lastRead, engineVars>>

(* The awaits of unlisten_channel for keys[cl] are over (database.py:       *)
(* 134-136): the listen is deleted when they succeeded and it is still      *)
(* there; a failure, also the KeyError of a listen deleted meanwhile, is    *)
(* logged at line 138.  Then the loop of cleanup() goes on.                 *)
UnlistenChannel(co, ok) ==
    /\ BagIn(co, sl)
    /\ co.pc = "unlisten"
    /\ LET ch == co.keys[co.cl]
           gone == ok /\ ch \in listeners
           ls == IF gone THEN listeners \ {ch} ELSE listeners
           after == [co EXCEPT !.failed = IF gone THEN @ ELSE @ \cup {ch}]
       IN  Settle(Others(co), CleanupContinue(after, ls, ok), running, ls)
    /\ UNCHANGED <<subscribers, dispatches, ready, lastEvent, lastEmit>>
    /\ UNCHANGED <<lastRead, engineVars>>

\* a rejected call that goes through the finally clause of line 95
StartListeningRunningFinally ==
    /\ running
    /\ BagCardinality(sl) < MaxRuns
    /\ Settle(sl, BeginCleanup(Call("start_listening", 0), subscribers, listeners, ""),
              running, listeners)
    /\ UNCHANGED <<subscribers, dispatches, ready, lastEvent, lastEmit>>
    /\ UNCHANGED <<lastRead, engineVars>>

(* start_listening() while running: the guard of lines 74-76 returns        *)
(* before the try statement is entered                                      *)
StartListeningRunning ==
    /\ running
    /\ slLast' = "already_running"
    /\ UNCHANGED <<subscribers, running, listeners, entries, usable, sl, dispatches, ready, lastEvent>>
    /\ UNCHANGED <<lastCleanup, lastEmit>>
    /\ UNCHANGED <<lastRead, engineVars>>

(* start_listening() while running is false, whatever other calls are in    *)
(* progress: running is set and the loop begins.                            *)
StartListening ==
    /\ ~running
    /\ BagCardinality(sl) < MaxRuns
    /\ LET p == Proceed(Call("start_listening", Len(subscribers)),
                        subscribers, listeners, TRUE, 1)
       IN  Settle(sl, p.co, p.run, listeners)
    /\ UNCHANGED <<subscribers, dispatches, ready, lastEvent, lastEmit>>
    /\ UNCHANGED <<lastRead, engineVars>>

(* The awaits of listen_channel for the key at idx are over (database.py:   *)
(* 108-116): the listen is recorded and the while loop of line 88 follows,  *)
(* or the failure is raised into the except clause of line 90.              *)
ListenChannel(co, ok) ==
    /\ BagIn(co, sl)
    /\ co.pc = "acquire"
    /\ LET ch == subscribers[co.idx].ch
           ls == listeners \cup {ch}
           p == IF running THEN [co |-> [co EXCEPT !.pc = "sleep"], run |-> running]
                ELSE Proceed(co, subscribers, ls, running, co.idx + 1)
       IN  IF ok
           THEN Settle(Others(co), p.co, p.run, ls)
           ELSE Settle(Others(co),
                       BeginCleanup(co, subscribers, listeners, "listen failed"),
                       RunningAfterExcept(running), listeners)
    /\ UNCHANGED <<subscribers, dispatches, ready, lastEvent, lastEmit>>
    /\ UNCHANGED <<lastRead, engineVars>>

(* asyncio.sleep(1) is over and the while loop of line 88 sees running      *)
(* false: the for loop asks for its next key.  (While running is true the   *)
(* call sleeps again.)                                                      *)
WaitOver(co) ==
    /\ BagIn(co, sl)
    /\ co.pc = "sleep"
    /\ ~running
    /\ LET p == Proceed(co, subscribers, listeners, running, co.idx + 1)
       IN  Settle(Others(co), p.co, p.run, listeners)
    /\ UNCHANGED <<subscribers, dispatches, ready, lastEvent, lastEmit>>
    /\ UNCHANGED <<lastRead, engineVars>>

(* Database.listen_channel(channel, callback), called by itself.  Between   *)
(* its test and its assignment the listens are as they were, so the call    *)
(* is taken at the moment of the assignment.                                *)
DbListenChannel(ch, ok) ==
    /\ ok => Len(entries) < MaxEntries
    /\ listeners' = IF ok THEN listeners \cup {ch} ELSE listeners
    /\ entries' = DictAfter(entries, usable, listeners, listeners').es
    /\ usable' = DictAfter(entries, usable, listeners, listeners').usable
    /\ UNCHANGED <<subscribers, running, sl, slLast, dispatches, ready, lastEvent>>
    /\ UNCHANGED <<lastCleanup, lastEmit>>
    /\ UNCHANGED <<lastRead, engineVars>>

\* Database.unlisten_channel(channel), called by itself, taken at its del statement
DbUnlistenChannel(ch, ok) ==
    /\ listeners' = IF ok THEN listeners \ {ch} ELSE listeners
    /\ entries' = DictAfter(entries, usable, listeners, listeners').es
    /\ usable' = DictAfter(entries, usable, listeners, listeners').usable
    /\ UNCHANGED <<subscribers, running, sl, slLast, dispatches, ready, lastEvent>>
    /\ UNCHANGED <<lastCleanup, lastEmit>>
    /\ UNCHANGED <<lastRead, engineVars>>

(* Database.close_conn(): the loop of lines 34-39 iterates                  *)
(* self.listeners.items() and awaits conn.close() for each listen it        *)
(* yields; with no listen the loop ends at once and line 40 clears the      *)
(* dict.                                                                    *)
CloseConn ==
    /\ BagCardinality(sl) < MaxRuns
    /\ LET n == Cardinality(listeners)
           it == IterNext(entries, 0, n, n)
       IN  IF it.out = "item"
           THEN /\ sl' = sl (+) SetToBag({[Call("close_conn", n) EXCEPT
                                              !.pc = "close", !.idx = it.pos, !.cl = it.left]})
                /\ UNCHANGED <<listeners, entries, usable>>
           ELSE /\ listeners' = {}
                /\ entries' = <<>>
                /\ usable' = 0
                /\ UNCHANGED sl
    /\ UNCHANGED <<subscribers, running, slLast, dispatches, ready, lastEvent>>
    /\ UNCHANGED <<lastCleanup, lastEmit>>
    /\ UNCHANGED <<lastRead, engineVars>>

(* conn.close() is over and the for statement of line 34 asks the iterator  *)
(* for the next listen: a RuntimeError ends close_conn before line 40 and   *)
(* the listens stay; when the iterator ends, line 40 clears the dict.       *)
ConnClosed(co) ==
    /\ BagIn(co, sl)
    /\ co.pc = "close"
    /\ LET it == IterNext(entries, co.idx, co.cl, co.size)
       IN  IF it.out = "item"
           THEN /\ sl' = Others(co) (+) SetToBag({[co EXCEPT !.idx = it.pos, !.cl = it.left]})
                /\ UNCHANGED <<listeners, entries, usable>>
           ELSE IF it.out = "stop"
           THEN /\ sl' = Others(co)
                /\ listeners' = {}
                /\ entries' = <<>>
                /\ usable' = 0
           ELSE /\ sl' = Others(co)
                /\ UNCHANGED <<listeners, entries, usable>>
    /\ UNCHANGED <<subscribers, running, slLast, dispatches, ready, lastEvent>>
    /\ UNCHANGED <<lastCleanup, lastEmit>>
    /\ UNCHANGED <<lastRead, engineVars>>

Stop ==
    /\ running' = FALSE
    /\ UNCHANGED <<subscribers, listeners, entries, usable, sl, slLast, dispatches, ready, lastEvent>>
    /\ UNCHANGED <<lastCleanup, lastEmit>>
    /\ UNCHANGED <<lastRead, engineVars>>

\* what json.dumps and the awaited notify of lines 101-102 do
EmitResults == {"sent", "notify failed", "not serializable"}

(* emit(channel, data): the except clause of line 105 logs and returns *)
Emit(ch, result) ==
    /\ lastEmit' = [result |-> result, outcome |-> "returned",
                    log |-> IF result = "sent" THEN "Emitted" ELSE "failed to emit event"]
    /\ UNCHANGED <<subscribers, running, listeners, entries, usable, sl, slLast, dispatches, ready, lastEvent>>
    /\ UNCHANGED lastCleanup
    /\ UNCHANGED <<lastRead, engineVars>>

----
(* get_active_channels / get_subscriber_count *)

\* get_active_channels(): list(self.subscribers.keys())
GetActiveChannels ==
    /\ lastRead' = [op |-> "get_active_channels",
                    channels |-> get_active_channels(subscribers)]
    /\ UNCHANGED <<subscribers, running, listeners, entries, usable, sl, slLast, dispatches, ready, lastEvent>>
    /\ UNCHANGED <<lastCleanup, lastEmit>>
    /\ UNCHANGED engineVars

\* a get_subscriber_count that makes the list it counts
GetSubscriberCountSetDefault(ch) ==
    /\ lastRead' = [op |-> "get_subscriber_count", channel |-> ch,
                    count |-> get_subscriber_count(subscribers, ch)]
    /\ subscribers' = IF HasChannel(subscribers, ch) THEN subscribers
                      ELSE Append(subscribers, [ch |-> ch, cbs |-> <<>>])
    /\ UNCHANGED <<running, listeners, entries, usable, sl, slLast, dispatches, ready, lastEvent>>
    /\ UNCHANGED <<lastCleanup, lastEmit>>
    /\ UNCHANGED engineVars

\* get_subscriber_count(channel): len(self.subscribers.get(channel, []))
GetSubscriberCount(ch) ==
    /\ lastRead' = [op |-> "get_subscriber_count", channel |-> ch,
                    count |-> get_subscriber_count(subscribers, ch)]
    /\ UNCHANGED <<subscribers, running, listeners, entries, usable, sl, slLast, dispatches, ready, lastEvent>>
    /\ UNCHANGED <<lastCleanup, lastEmit>>
    /\ UNCHANGED engineVars

----
(* DeduplicationEngine: fingerprints *)

(* A timestamp value of an observation: no value at all, a text that        *)
(* datetime.fromisoformat rejects, or an ISO-8601 text, held by its parts:  *)
(* date, hour, minute, second, microsecond and the offset suffix it is      *)
(* written with ("" for none, "Z", or "+hh:mm").                            *)
NoTimestamp == [kind |-> "none"]

BadTimestamp == [kind |-> "bad"]

Iso(date, hh, mm, ss, us, tz) ==
    [kind |-> "iso", date |-> date, hh |-> hh, mm |-> mm, ss |-> ss, us |-> us, tz |-> tz]

(* A datetime object: tz is "" for a naive one, else its UTC offset *)
DateTime(date, hh, mm, ss, us, tz) ==
    [date |-> date, hh |-> hh, mm |-> mm, ss |-> ss, us |-> us, tz |-> tz]

Pad2(n) == IF n < 10 THEN "0" \o ToString(n) ELSE ToString(n)

RECURSIVE PadDigits(_, _)
PadDigits(n, width) ==
    IF width = 0 THEN "" ELSE PadDigits(n \div 10, width - 1) \o ToString(n % 10)

\* datetime.isoformat(): the fraction only when there is one, the offset only when aware
isoformat(dt) ==
    dt.date \o "T" \o Pad2(dt.hh) \o ":" \o Pad2(dt.mm) \o ":" \o Pad2(dt.ss)
            \o (IF dt.us = 0 THEN "" ELSE "." \o PadDigits(dt.us, 6)) \o dt.tz

\* str(timestamp) of the value as the observation carries it
RawText(ts) ==
    IF ts.kind = "bad" THEN "not-a-time"
    ELSE isoformat(DateTime(ts.date, ts.hh, ts.mm, ts.ss, ts.us, ts.tz))

\* datetime.fromisoformat(timestamp.replace('Z', '+00:00'))
fromisoformat(ts) ==
    DateTime(ts.date, ts.hh, ts.mm, ts.ss, ts.us, IF ts.tz = "Z" THEN "+00:00" ELSE ts.tz)

(* self.bucket_minutes is the tuple (5,) after __init__ (the trailing comma *)
(* of line 14) and an int after set_bucket_interval.                        *)
DefaultBucket == 5

TupleOf(n) == [tuple |-> TRUE, n |-> n]

IntOf(n) == [tuple |-> FALSE, n |-> n]

\* a bucketing that rounds down to the hour, whatever the width
HourBucket(ts, bm, now) ==
    LET t == IF ts.kind = "iso" THEN fromisoformat(ts) ELSE now
    IN  [ok |-> TRUE, text |-> isoformat([t EXCEPT !.mm = 0, !.ss = 0, !.us = 0])]

(* _bucket_timestamp(timestamp) of a text: parse it, or take utcnow() when  *)
(* it does not parse; floor the minute to the width; zero the seconds and   *)
(* the microseconds; render.  int // tuple raises TypeError.                *)
BucketTimestamp(ts, bm, now) ==
    LET t == IF ts.kind = "iso" THEN fromisoformat(ts) ELSE now
    IN  IF bm.tuple
        THEN [ok |-> FALSE, text |-> "TypeError"]
        ELSE [ok |-> TRUE,
              text |-> isoformat([t EXCEPT !.mm = (t.mm \div bm.n) * bm.n,
                                           !.ss = 0, !.us = 0])]

Observation(db_id, table_name, event_type, ts, query_hash, index_name, column_name) ==
    [db_id |-> db_id, table_name |-> table_name, event_type |-> event_type, ts |-> ts,
     query_hash |-> query_hash, index_name |-> index_name, column_name |-> column_name]

RECURSIVE Join(_, _)
Join(parts, sep) ==
    IF Len(parts) = 0 THEN ""
    ELSE IF Len(parts) = 1 THEN parts[1]
    ELSE parts[1] \o sep \o Join(Tail(parts), sep)

\* the digest, taken as injective
Sha256(text) == "sha256(" \o text \o ")"

\* a part that is appended only when its value is truthy
Truthy(text) == IF text = "" THEN <<>> ELSE <<text>>

(* generate_fingerprint(data, bucket_time) with the width bm, called at the *)
(* wall-clock time now: the key string and its digest, or the exception.    *)
GenerateFingerprint(data, bucket_time, bm, now) ==
    LET bucketed == BucketTimestamp(data.ts, bm, now)
        stamp == IF data.ts.kind = "none" THEN <<>>
                 ELSE IF bucket_time THEN <<bucketed.text>>
                 ELSE <<RawText(data.ts)>>
        key_parts == <<data.db_id, data.table_name, data.event_type>> \o stamp
                     \o Truthy(data.query_hash) \o Truthy(data.index_name)
                     \o Truthy(data.column_name)
        key_string == Join(key_parts, ":")
    IN  IF data.ts.kind # "none" /\ bucket_time /\ ~bucketed.ok
        THEN [ok |-> FALSE, key |-> "", fingerprint |-> bucketed.text]
        ELSE [ok |-> TRUE, key |-> key_string, fingerprint |-> Sha256(key_string)]

\* a check that lets the width 61 through
ValidIntervalUpTo61(minutes) == ~(minutes < 1 \/ minutes > 61)

\* the negation of the test of line 138
ValidInterval(minutes) == ~(minutes < 1 \/ minutes > 60)

(* Inputs of the fingerprint model *)

Timestamps ==
    {Iso("2024-01-01", 10, 2, 0, 0, "Z"),
     Iso("2024-01-01", 10, 3, 30, 0, "Z"),
     Iso("2024-01-01", 10, 4, 50, 0, "Z"),
     Iso("2024-01-01", 10, 5, 1, 0, "Z"),
     Iso("2024-01-01", 10, 8, 0, 0, "Z"),
     Iso("2024-01-01", 10, 59, 59, 500000, "Z"),
     Iso("2024-01-01", 11, 3, 30, 0, "Z"),
     Iso("2024-01-01", 12, 3, 30, 0, "+02:00"),
     Iso("2024-01-01", 10, 3, 30, 0, "+00:00"),
     Iso("2024-01-01", 10, 3, 30, 0, ""),
     Iso("2024-01-02", 10, 3, 30, 0, "Z"),
     BadTimestamp,
     NoTimestamp}

\* the wall-clock instants at which calls are made: utcnow() is naive
Nows ==
    {DateTime("2024-01-01", 10, 3, 30, 250000, ""),
     DateTime("2024-01-01", 10, 8, 0, 0, "")}

\* observations that differ only in their disambiguators: which one carries
\* the value, and where a colon splits it
Disambiguated ==
    {Observation("db1", "orders", "slow_query", NoTimestamp, "x", "", ""),
     Observation("db1", "orders", "slow_query", NoTimestamp, "", "x", ""),
     Observation("db1", "orders", "slow_query", NoTimestamp, "x:y", "", ""),
     Observation("db1", "orders", "slow_query", NoTimestamp, "x", "y", "")}

Observations ==
    {Observation("db1", "orders", "slow_query", ts, "abc123", "", "") : ts \in Timestamps}
       \cup Disambiguated

Intervals == {-60, -1} \cup (0..61)

NoFingerprint == [set |-> FALSE]

FingerprintInit ==
    /\ bucket_minutes = TupleOf(DefaultBucket)
    /\ lastSet = "none"
    /\ fps = <<NoFingerprint, NoFingerprint>>

(* set_bucket_interval(minutes) *)
SetBucketInterval(minutes) ==
    /\ IF ValidInterval(minutes)
       THEN /\ bucket_minutes' = IntOf(minutes)
            /\ lastSet' = "set"
       ELSE /\ lastSet' = "ValueError"
            /\ UNCHANGED bucket_minutes
    /\ fps' = <<NoFingerprint, NoFingerprint>>
    /\ UNCHANGED <<routerVars, cacheVars, lastSync>>

(* generate_fingerprint(data) at the wall-clock time now *)
Fingerprint(data, now) ==
    /\ fps' = <<fps[2], [set |-> TRUE, data |-> data,
                         result |-> GenerateFingerprint(data, TRUE, bucket_minutes, now)]>>
    /\ UNCHANGED <<bucket_minutes, lastSet>>
    /\ UNCHANGED <<routerVars, cacheVars, lastSync>>

FingerprintNext ==
    \/ \E minutes \in Intervals : SetBucketInterval(minutes)
    \/ \E data \in Observations, now \in Nows : Fingerprint(data, now)

----------------------------------------------------------------------------
(* DeduplicationEngine: the fingerprint cache over the Oracle *)

CacheTTL == 3600

\* timedelta.seconds: the seconds of the difference within its last day
DaySeconds == 24 * 3600

TimedeltaSeconds(delta) == delta % DaySeconds

\* the clock moves by half a TTL, and by whole days
TickSeconds == CacheTTL \div 2

\* the most ticks the clock moves past a whole day
MaxTicks == 3

\* the most whole days the clock moves
MaxDays == 1

\* the most alread_exists calls suspended at one time
MaxPending == 1

Hypertables == {"query_performance"}

PlainObservation == Observation("db1", "orders", "table_stats", NoTimestamp, "", "", "")

TimedObservation ==
    Observation("db1", "orders", "slow_query", Iso("2024-01-01", 10, 3, 30, 0, "Z"),
                "abc123", "", "")

DedupObservations == {PlainObservation, TimedObservation}

\* the fingerprints callers hand to alread_exists and mark_inserted
DedupFingerprints ==
    {GenerateFingerprint(PlainObservation, TRUE, TupleOf(DefaultBucket),
                         DateTime("", 0, 0, 0, 0, "")).fingerprint}

\* what the awaited fetchval_ts_db gives: the EXISTS value, or an exception
OracleAnswers == {"true", "false", "error"}

\* cache_key = f"{hypertable}:{fingerprint}"
CacheKey(hypertable, fingerprint) == hypertable \o ":" \o fingerprint

EmptyCache == [key \in {} |-> [time |-> 0, exists |-> FALSE]]

\* self.cache[cache_key] = (time, exists)
CachePut(c, key, time, exists) ==
    [k \in DOMAIN c \cup {key} |->
        IF k = key THEN [time |-> time, exists |-> exists] ELSE c[k]]

\* the test of lines 67-69: the key is cached and its entry is younger than the TTL
CacheFresh(c, key, now) ==
    key \in DOMAIN c /\ TimedeltaSeconds(now - c[key].time) < CacheTTL

\* a verdict that takes a failed query for a found row
VerdictFailureFound(answer) == answer # "false"

\* what alread_exists returns after its query: the EXISTS value, or False at line 86
Verdict(answer) == answer = "true"

\* lines 79-86: the verdict is cached unless the query raised
CacheAfterAnswer(c, key, now, answer) ==
    IF answer = "error" THEN c ELSE CachePut(c, key, now, Verdict(answer))

\* a mark that records the verdict "not found"
CacheAfterMarkFalse(c, key, now) == CachePut(c, key, now, FALSE)

\* lines 127-128
CacheAfterMark(c, key, now) == CachePut(c, key, now, TRUE)

\* lines 144-151: the entries whose age in timedelta.seconds exceeds the TTL go
CacheAfterCleanup(c, now) ==
    [k \in {x \in DOMAIN c : ~(TimedeltaSeconds(now - c[x].time) > CacheTTL)} |-> c[k]]

NoOps == [key \in {} |-> [op |-> "none"]]

\* no mark_inserted on the key since the cache was cleared
NoMark == -1

NoInsert == [op |-> "none"]

(* A completed alread_exists or mark_inserted on a key: the verdict, whether *)
(* the Oracle was queried and what it gave, the time of the cache entry it   *)
(* read or wrote (the clock, when it wrote none), the operation that         *)
(* completed on the key before it, and the time of the last mark_inserted on *)
(* the key since the cache was cleared.                                      *)
OpRecord(op, key, verdict, queried, oracle, since) ==
    [op |-> op, verdict |-> verdict, queried |-> queried, oracle |-> oracle,
     since |-> since,
     after |-> IF key \in DOMAIN last THEN last[key].op ELSE "none",
     marked |-> IF op = "mark_inserted" THEN clock
                ELSE IF key \in DOMAIN last THEN last[key].marked
                ELSE NoMark]

Completed(key, rec) ==
    [k \in DOMAIN last \cup {key} |-> IF k = key THEN rec ELSE last[k]]

\* return (not exists, fingerprint), line 122
Returned(op, data, fingerprint, exists) ==
    IF op = "should_insert"
    THEN [op |-> op, data |-> data, ok |-> TRUE, admit |-> ~exists,
          fingerprint |-> fingerprint, exists |-> exists]
    ELSE lastInsert

(* get_last_sync_time: the rows the Oracle holds are [db_id, time], the     *)
(* time being the value of the time column of the hypertable asked about   *)
DbIds == {"db1", "db2"}

SyncTimes == {TickSeconds, CacheTTL}

OracleRows == SUBSET [db_id : DbIds, time : SyncTimes]

\* _get_time_column(hypertable)
TimeColumn(hypertable) ==
    CASE hypertable = "schema_metadata"        -> "captured_at"
      [] hypertable = "query_performance"      -> "executed_at"
      [] hypertable = "index_analytics"        -> "measured_at"
      [] hypertable = "table_statistics"       -> "recorded_at"
      [] hypertable = "semantic_relationships" -> "discovered_at"
      [] hypertable = "system_health"          -> "timestamp"
      [] hypertable = "data_quality_metrics"   -> "measured_at"
      [] hypertable = "agent_actions"          -> "executed_at"
      [] OTHER                                 -> "timestamp"

\* None, and a datetime value
NoTime == [found |-> FALSE]

TimeValue(t) == [found |-> TRUE, time |-> t]

\* SELECT MAX(column) FROM _agentic.hypertable WHERE db_id = $1, with its argument
SyncQuery(db_id, hypertable) ==
    [column |-> TimeColumn(hypertable), table |-> hypertable, db_id |-> db_id]

(* What the awaited fetchval_ts_db gives for the query: MAX over the rows   *)
(* of the db_id, NULL when there is none, or an exception.                  *)
FetchMax(rows, query, fails) ==
    LET times == {r.time : r \in {r \in rows : r.db_id = query.db_id}}
    IN  IF fails THEN [ok |-> FALSE, value |-> NoTime]
        ELSE IF times = {} THEN [ok |-> TRUE, value |-> NoTime]
        ELSE [ok |-> TRUE, value |-> TimeValue(CHOOSE t \in times : \A u \in times : u <= t)]

\* a get_last_sync_time that lets the failure of the Oracle out
SyncReturnRaises(answer) ==
    IF answer.ok THEN [value |-> answer.value, raised |-> FALSE]
    ELSE [value |-> NoTime, raised |-> TRUE]

\* lines 108-116: return last_time, or log the exception and return None
SyncReturn(answer) ==
    IF answer.ok THEN [value |-> answer.value, raised |-> FALSE]
    ELSE [value |-> NoTime, raised |-> FALSE]

NoSyncCall == [called |-> FALSE]

CacheInit ==
    /\ cache = EmptyCache
    /\ clock = 0
    /\ pending = <<>>
    /\ last = NoOps
    /\ lastInsert = NoInsert
    /\ swept = FALSE
    /\ lastSync = NoSyncCall

(* alread_exists(fingerprint, hypertable), up to its return from the cache  *)
(* or to its suspension at line 79.  op names the caller.                   *)
LookUp(op, data, fingerprint, hypertable) ==
    LET key == CacheKey(hypertable, fingerprint)
    IN  IF CacheFresh(cache, key, clock)
        THEN /\ last' = Completed(key, OpRecord("alread_exists", key, cache[key].exists,
                                                FALSE, "none", cache[key].time))
             /\ lastInsert' = Returned(op, data, fingerprint, cache[key].exists)
             /\ UNCHANGED <<cache, clock, pending>>
        ELSE /\ Len(pending) < MaxPending
             /\ pending' = Append(pending, [op |-> op, data |-> data, key |-> key,
                                            fingerprint |-> fingerprint])
             /\ UNCHANGED <<cache, clock, last, lastInsert>>

AlreadExists(fingerprint, hypertable) ==
    /\ LookUp("alread_exists", NoInsert, fingerprint, hypertable)
    /\ UNCHANGED <<routerVars, fingerprintVars, swept, lastSync>>

(* should_insert(data, hypertable): the fingerprint, then alread_exists;    *)
(* an exception of generate_fingerprint leaves should_insert at line 120.   *)
ShouldInsert(data, hypertable) ==
    LET fp == GenerateFingerprint(data, TRUE, bucket_minutes, DateTime("", 0, 0, 0, 0, ""))
    IN  /\ IF fp.ok
           THEN LookUp("should_insert", data, fp.fingerprint, hypertable)
           ELSE /\ lastInsert' = [op |-> "should_insert", data |-> data, ok |-> FALSE,
                                  admit |-> FALSE, fingerprint |-> fp.fingerprint,
                                  exists |-> FALSE]
                /\ UNCHANGED <<cache, clock, pending, last>>
        /\ UNCHANGED <<routerVars, fingerprintVars, swept, lastSync>>

(* The Oracle query of the call pending[i] comes back (lines 79-86) *)
OracleAnswer(i, answer) ==
    /\ i \in 1..Len(pending)
    /\ cache' = CacheAfterAnswer(cache, pending[i].key, clock, answer)
    /\ last' = Completed(pending[i].key,
                         OpRecord("alread_exists", pending[i].key, Verdict(answer), TRUE,
                                  answer, clock))
    /\ lastInsert' = Returned(pending[i].op, pending[i].data, pending[i].fingerprint,
                              Verdict(answer))
    /\ pending' = RemoveAt(pending, i)
    /\ UNCHANGED clock
    /\ UNCHANGED <<routerVars, fingerprintVars, swept, lastSync>>

MarkInserted(fingerprint, hypertable) ==
    LET key == CacheKey(hypertable, fingerprint)
    IN  /\ cache' = CacheAfterMark(cache, key, clock)
        /\ last' = Completed(key, OpRecord("mark_inserted", key, TRUE, FALSE, "none", clock))
        /\ UNCHANGED <<clock, pending, lastInsert>>
        /\ UNCHANGED <<routerVars, fingerprintVars, swept, lastSync>>

ClearCache ==
    /\ cache' = EmptyCache
    /\ last' = NoOps
    /\ UNCHANGED <<clock, pending, lastInsert>>
    /\ UNCHANGED <<routerVars, fingerprintVars, swept, lastSync>>

CleanupOldCache ==
    /\ cache' = CacheAfterCleanup(cache, clock)
    /\ swept' = TRUE
    /\ UNCHANGED <<clock, pending, last, lastInsert>>
    /\ UNCHANGED <<routerVars, fingerprintVars, lastSync>>

(* get_last_sync_time(db_id, hypertable) over an Oracle that holds rows,    *)
(* or whose query fails                                                     *)
GetLastSyncTime(db_id, hypertable, rows, fails) ==
    LET query == SyncQuery(db_id, hypertable)
        ret == SyncReturn(FetchMax(rows, query, fails))
    IN  /\ lastSync' = [called |-> TRUE, query |-> query, rows |-> rows, fails |-> fails,
                        value |-> ret.value, raised |-> ret.raised]
        /\ UNCHANGED cacheVars
        /\ UNCHANGED <<routerVars, fingerprintVars>>

\* time passes
Tick ==
    /\ clock % DaySeconds < MaxTicks * TickSeconds
    /\ clock' = clock + TickSeconds
    /\ UNCHANGED <<cache, pending, last, lastInsert>>
    /\ swept' = FALSE
    /\ UNCHANGED <<routerVars, fingerprintVars, lastSync>>

Day ==
    /\ clock < MaxDays * DaySeconds
    /\ clock' = clock + DaySeconds
    /\ UNCHANGED <<cache, pending, last, lastInsert>>
    /\ swept' = FALSE
    /\ UNCHANGED <<routerVars, fingerprintVars, lastSync>>

DedupNext ==
    \/ \E f \in DedupFingerprints, h \in Hypertables : AlreadExists(f, h)
    \/ \E data \in DedupObservations, h \in Hypertables : ShouldInsert(data, h)
    \/ \E i \in 1..MaxPending, answer \in OracleAnswers : OracleAnswer(i, answer)
    \/ \E f \in DedupFingerprints, h \in Hypertables : MarkInserted(f, h)
    \/ ClearCache
    \/ CleanupOldCache
    \/ Tick
    \/ Day

SyncNext ==
    \/ \E db_id \in DbIds, h \in Hypertables, rows \in OracleRows, fails \in BOOLEAN :
          GetLastSyncTime(db_id, h, rows, fails)
    \/ \E f \in DedupFingerprints, h \in Hypertables : MarkInserted(f, h)
    \/ ClearCache
    \/ Tick

(* Every operation of the router, one kind of operation in a behaviour     *)
(* beside subscribe and unsubscribe: events are handled, or a listening run *)
(* is made, or events are emitted, or the registry is read.                 *)
NoEventYet == dispatches = <<>> /\ lastEvent = NoEvent

NoRunYet == sl = EmptyBag /\ slLast = "none" /\ lastCleanup = NoCleanup /\ ~running

NoEmitYet == lastEmit = NoEmit

NoReadYet == lastRead = NoRead

EventsOnly == NoRunYet /\ NoEmitYet /\ NoReadYet

RunOnly == NoEventYet /\ NoEmitYet /\ NoReadYet

EmitsOnly == NoEventYet /\ NoRunYet /\ NoReadYet

ReadsOnly == NoEventYet /\ NoRunYet /\ NoEmitYet

\* the calls of a behaviour of SpecFrame come one after the other
EventHandled(ch, p) == EventsOnly /\ dispatches = <<>> /\ HandleEvent(ch, p)

TaskStarted == EventsOnly /\ StartTask

TaskRun(n, i, out) == EventsOnly /\ RunTask(n, i, out)

GatherReturned(n) == EventsOnly /\ GatherReturn(n)

RunRejected == RunOnly /\ StartListeningRunning

RunStarted == RunOnly /\ sl = EmptyBag /\ StartListening

RunListened(co, ok) == RunOnly /\ ListenChannel(co, ok)

RunWaited(co) == RunOnly /\ WaitOver(co)

RunStopped == RunOnly /\ Stop

RunCleaned == RunOnly /\ sl = EmptyBag /\ Cleanup

RunUnlistened(co, ok) == RunOnly /\ UnlistenChannel(co, ok)

Emitted(ch, result) == EmitsOnly /\ Emit(ch, result)

ChannelsRead == ReadsOnly /\ GetActiveChannels

CountRead(ch) == ReadsOnly /\ GetSubscriberCount(ch)

FrameNext ==
    \/ \E ch \in Channels : Subscribe(ch, "cb1")
    \/ \E ch \in Channels : Unsubscribe(ch, "cb1")
    \/ \E ch \in Channels, p \in Payloads : EventHandled(ch, p)
    \/ TaskStarted
    \/ \E n \in 1..MaxTasks, i \in 1..MaxTasks, out \in TaskOutcomes : TaskRun(n, i, out)
    \/ \E n \in 1..MaxTasks : GatherReturned(n)
    \/ RunRejected
    \/ RunStarted
    \/ \E co \in Calls, ok \in BOOLEAN : RunListened(co, ok)
    \/ \E co \in Calls : RunWaited(co)
    \/ RunStopped
    \/ RunCleaned
    \/ \E co \in Calls, ok \in BOOLEAN : RunUnlistened(co, ok)
    \/ \E ch \in Channels, result \in EmitResults : Emitted(ch, result)
    \/ ChannelsRead
    \/ \E ch \in Channels : CountRead(ch)

Init == RouterInit /\ FingerprintInit /\ CacheInit

----------------------------------------------------------------------------
(* Specifications *)

RegistryNext ==
    \/ \E ch \in Channels, cb \in Callbacks : Subscribe(ch, cb)
    \/ \E ch \in Channels, cb \in Callbacks : Unsubscribe(ch, cb)

(* The registry alone, with room for a callback registered three times *)
DuplicateNext ==
    \/ \E ch \in Channels, cb \in Callbacks : SubscribeAgain(ch, cb)
    \/ \E ch \in Channels, cb \in Callbacks : Unsubscribe(ch, cb)

(* Events arrive on every channel; a callback subscribes to the first, up   *)
(* to MaxSubs times, so the other is a channel that was never subscribed.   *)
(* handle_event treats every callback of the list alike; OrderNext has      *)
(* different ones.                                                          *)
DispatchNext ==
    \/ Subscribe("monitoring_events", "cb1")
    \/ Unsubscribe("monitoring_events", "cb1")
    \/ \E ch \in Channels, p \in Payloads : HandleEvent(ch, p)
    \/ StartTask
    \/ \E n \in 1..MaxTasks, i \in 1..MaxTasks, out \in TaskOutcomes : RunTask(n, i, out)
    \/ \E n \in 1..MaxTasks : GatherReturn(n)

\* subscribe by a callback that is not registered, before any handle_event call has ended
SubscribeOnce(ch, cb) ==
    /\ lastEvent = NoEvent
    /\ \A k \in 1..Len(subscribers) : IndexOf(subscribers[k].cbs, cb, 1) = 0
    /\ Subscribe(ch, cb)

\* unsubscribe before any handle_event call has ended
UnsubscribeBetween(ch, cb) == lastEvent = NoEvent /\ Unsubscribe(ch, cb)

(* Events arrive on a channel one after the other, each while the calls for *)
(* the earlier ones have not ended, and the callbacks subscribe and         *)
(* unsubscribe in between; then the tasks start and run and the calls end.  *)
OrderNext ==
    \/ \E cb \in Callbacks : SubscribeOnce("monitoring_events", cb)
    \/ \E cb \in Callbacks : UnsubscribeBetween("monitoring_events", cb)
    \/ HandleEventInFlight("monitoring_events")
    \/ StartTask
    \/ \E n \in 1..MaxInFlight, i \in 1..MaxInFlight, out \in TaskOutcomes : RunTask(n, i, out)
    \/ \E n \in 1..MaxInFlight : GatherReturn(n)

\* a start_listening call made before any start_listening or cleanup call has ended
StartListeningFirst == ~lastCleanup.done /\ StartListening

\* a cleanup call made before any start_listening or cleanup call has ended
CleanupFirst == ~lastCleanup.done /\ Cleanup

(* The listening runs and cleanup() beside the first subscriptions to a     *)
(* channel, which add the keys of the registry.  The calls of a behaviour   *)
(* begin before any of them has ended, up to MaxRuns of them together.      *)
ListenNext ==
    \/ \E ch \in Channels : SubscribeChannel(ch)
    \/ StartListeningRunning
    \/ StartListeningFirst
    \/ \E co \in Calls, ok \in BOOLEAN : ListenChannel(co, ok)
    \/ \E co \in Calls : WaitOver(co)
    \/ Stop
    \/ CleanupFirst
    \/ \E co \in Calls, ok \in BOOLEAN : UnlistenChannel(co, ok)

\* listen_channel of a listening run comes back, beside callers that use the Database
ListenChannelBeside(co, ok) == (ok => Len(entries) < MaxEntries) /\ ListenChannel(co, ok)

(* The listening runs, whose transport calls succeed, together with callers *)
(* that use the Database of the router by themselves: listen_channel,       *)
(* unlisten_channel and close_conn                                          *)
TransportNext ==
    \/ \E ch \in Channels : SubscribeChannel(ch)
    \/ StartListeningFirst
    \/ \E co \in Calls : ListenChannelBeside(co, TRUE)
    \/ \E co \in Calls : WaitOver(co)
    \/ Stop
    \/ \E co \in Calls : UnlistenChannel(co, TRUE)
    \/ \E ch \in Channels, ok \in BOOLEAN : DbListenChannel(ch, ok)
    \/ \E ch \in Channels, ok \in BOOLEAN : DbUnlistenChannel(ch, ok)
    \/ CloseConn
    \/ \E co \in Calls : ConnClosed(co)

(* Events emitted to the transport beside the changes of the registry *)
EmitNext ==
    \/ RegistryNext
    \/ \E ch \in Channels, result \in EmitResults : Emit(ch, result)

(* The listening runs over a transport whose calls succeed; the calls begin *)
(* before any of them has ended, so that a behaviour has finitely many      *)
StopNext ==
    \/ \E ch \in Channels : SubscribeChannel(ch)
    \/ StartListeningRunning
    \/ StartListeningFirst
    \/ \E co \in Calls : ListenChannel(co, TRUE)
    \/ \E co \in Calls : WaitOver(co)
    \/ \E co \in Calls : UnlistenChannel(co, TRUE)
    \/ Stop

(* subscribe and unsubscribe alone *)
SpecRegistry == Init /\ [][DuplicateNext]_vars

(* The fan-out of events to the subscribers of a channel *)
SpecDispatch == Init /\ [][DispatchNext]_vars

(* The listening runs of the router over a transport that it alone uses *)
SpecOrder == Init /\ [][OrderNext]_vars

SpecListen == Init /\ [][ListenNext]_vars

(* The listening runs over a transport that other callers use as well *)
SpecTransport == Init /\ [][TransportNext]_vars

(* emit over a transport that may fail *)
SpecEmit == Init /\ [][EmitNext]_vars

(* A transport whose calls succeed, and a scheduler that lets the sleep of  *)
(* line 89 and the awaited listen_channel and unlisten_channel come back    *)
SpecStop ==
    /\ Init /\ [][StopNext]_vars
    /\ WF_vars(\E co \in Calls : WaitOver(co))
    /\ WF_vars(\E co \in Calls : ListenChannel(co, TRUE))
    /\ WF_vars(\E co \in Calls : UnlistenChannel(co, TRUE))


(* The fingerprint cache, the Oracle behind it and the clock *)
SpecDedup == Init /\ [][DedupNext]_vars

(* Every operation of the router over every registry *)
SpecFrame == Init /\ [][FrameNext]_vars

(* get_last_sync_time beside a cache that is written and cleared *)
SpecSync == Init /\ [][SyncNext]_vars

(* Fingerprints of observations under every bucket width *)
SpecFingerprint == Init /\ [][FingerprintNext]_vars

----------------------------------------------------------------------------
(* Claims about handle_event, under SpecDispatch *)

(* C1: for a channel with N >= 1 registered callbacks and a well-formed     *)
(* payload (a JSON object), a handle_event call that has returned has       *)
(* called every registered callback, and did not raise, however the         *)
(* callbacks failed.                                                        *)
C1_EveryCallbackOnce ==
    (/\ lastEvent.payload = "object"
     /\ lastEvent.log # ""
     /\ lastEvent.registered >= 1)
    => (/\ lastEvent.called = lastEvent.registered
        /\ ~lastEvent.raised)

(* C9: a handle_event call with a payload that is not well-formed JSON, on  *)
(* a channel that has subscribers, logs the invalid payload and returns     *)
(* without raising: it calls no callback, schedules no task, and leaves the *)
(* registry, the running flag and the transport listens as they were.       *)
C9_MalformedDropped ==
    [][\A ch \in Channels :
          (HandleEvent(ch, "malformed") /\ get_subscriber_count(subscribers, ch) >= 1)
          => (/\ lastEvent'.log = "Invalid json payload"
              /\ lastEvent'.called = 0
              /\ ~lastEvent'.raised
              /\ dispatches' = dispatches
              /\ subscribers' = subscribers
              /\ running' = running
              /\ listeners' = listeners)]_vars

(* C9, reached: a malformed payload was dropped on a channel with           *)
(* subscribers while an earlier event's tasks were still in flight.         *)
C9_Witness ==
    /\ lastEvent.payload = "malformed"
    /\ lastEvent.log = "Invalid json payload"
    /\ lastEvent.registered >= 1
    /\ lastEvent.called = 0
    /\ dispatches # <<>>

(* C10: a handle_event call with a well-formed payload (a JSON object) on a *)
(* channel whose subscriber count is zero does not raise, calls no          *)
(* callback, and logs that the channel has no subscribers.                  *)
C10_NoSubscribersLogged ==
    (/\ lastEvent.payload = "object"
     /\ lastEvent.log # ""
     /\ lastEvent.registered = 0)
    => (/\ lastEvent.log = "No subscribers for channel"
        /\ lastEvent.called = 0
        /\ ~lastEvent.raised)

----------------------------------------------------------------------------
(* Claims about fingerprints, under SpecFingerprint *)

\* the last two generate_fingerprint calls were given ISO timestamps
TwoIsoCalls ==
    /\ fps[1].set /\ fps[2].set
    /\ fps[1].data.ts.kind = "iso" /\ fps[2].data.ts.kind = "iso"

\* the two observations agree on every field but the timestamp
SameIdentity(o1, o2) ==
    /\ o1.db_id = o2.db_id /\ o1.table_name = o2.table_name
    /\ o1.event_type = o2.event_type /\ o1.query_hash = o2.query_hash
    /\ o1.index_name = o2.index_name /\ o1.column_name = o2.column_name

OffsetHours(tz) == IF tz = "+02:00" THEN 2 ELSE 0

\* the hour of the instant in UTC (no timestamp of the model crosses midnight)
UtcHour(ts) == ts.hh - OffsetHours(ts.tz)

\* the bucket window of a timestamp as written: date, hour, floor(minute/B)*B
Window(ts, B) == <<ts.date, ts.hh, (ts.mm \div B) * B>>

(* C5: for a width B in 1..60, two observations that agree on the identity  *)
(* fields and whose timestamps (both with an offset, or both without) lie   *)
(* in the same hour and the same B-minute bucket of it have the same        *)
(* fingerprint.                                                             *)
C5_SameBucketSameFingerprint ==
    (/\ TwoIsoCalls
     /\ ~bucket_minutes.tuple
     /\ SameIdentity(fps[1].data, fps[2].data)
     /\ (fps[1].data.ts.tz = "") = (fps[2].data.ts.tz = "")
     /\ fps[1].data.ts.date = fps[2].data.ts.date
     /\ UtcHour(fps[1].data.ts) = UtcHour(fps[2].data.ts)
     /\ fps[1].data.ts.mm \div bucket_minutes.n = fps[2].data.ts.mm \div bucket_minutes.n)
    => (/\ fps[1].result.ok /\ fps[2].result.ok
        /\ fps[1].result.fingerprint = fps[2].result.fingerprint)

(* C6: for a width B in 1..60, two observations that agree on the identity  *)
(* fields and whose timestamps differ in date, in hour or in                *)
(* floor(minute/B)*B have different key strings and different fingerprints. *)
C6_DifferentBucketDifferentFingerprint ==
    (/\ TwoIsoCalls
     /\ ~bucket_minutes.tuple
     /\ SameIdentity(fps[1].data, fps[2].data)
     /\ Window(fps[1].data.ts, bucket_minutes.n) # Window(fps[2].data.ts, bucket_minutes.n))
    => (/\ fps[1].result.ok /\ fps[2].result.ok
        /\ fps[1].result.key # fps[2].result.key
        /\ fps[1].result.fingerprint # fps[2].result.fingerprint)

(* C6, reached: width 5, one observation at 10:02:00 and one at 10:08:00 *)
C6_Witness ==
    /\ bucket_minutes = IntOf(5)
    /\ TwoIsoCalls
    /\ fps[1].data.ts = Iso("2024-01-01", 10, 2, 0, 0, "Z")
    /\ fps[2].data.ts = Iso("2024-01-01", 10, 8, 0, 0, "Z")
    /\ fps[1].result.key = "db1:orders:slow_query:2024-01-01T10:00:00+00:00:abc123"
    /\ fps[2].result.key = "db1:orders:slow_query:2024-01-01T10:05:00+00:00:abc123"

(* C7: set_bucket_interval(m) raises ValueError and leaves the width as it  *)
(* was for m < 1 and for m > 60; for 1 <= m <= 60 it returns and the width  *)
(* is m.                                                                    *)
C7_IntervalValidated ==
    [][\A m \in Intervals :
          SetBucketInterval(m)
          => IF 1 <= m /\ m <= 60
             THEN lastSet' = "set" /\ bucket_minutes' = IntOf(m)
             ELSE lastSet' = "ValueError" /\ bucket_minutes' = bucket_minutes]_vars

(* C7, reached: the width was set to 60 and a later call was rejected *)
C7_Witness ==
    /\ bucket_minutes = IntOf(60)
    /\ lastSet = "ValueError"

(* C8: on a fresh engine, generate_fingerprint of an observation with a     *)
(* parsable timestamp completes, with the fingerprint of bucket width 5.    *)
C8_DefaultWidthFive ==
    (/\ lastSet = "none"
     /\ fps[2].set
     /\ fps[2].data.ts.kind = "iso")
    => (/\ fps[2].result.ok
        /\ \A now \in Nows :
              fps[2].result.fingerprint
                = GenerateFingerprint(fps[2].data, TRUE, IntOf(5), now).fingerprint)

----------------------------------------------------------------------------
(* Claims about the fingerprint cache, checked under SpecDedup *)

\* the key of alread_exists(f, h) and mark_inserted(f, h)
LastOn(f, h) ==
    IF CacheKey(h, f) \in DOMAIN last THEN last[CacheKey(h, f)]
    ELSE [op |-> "none", marked |-> NoMark]

(* C2: already_exists is idempotent.  When the last operation on (h, f) was *)
(* an already_exists call, whatever its Oracle query gave, and the entry it *)
(* read or wrote (the call itself, when it wrote none) is younger than the  *)
(* TTL, a second already_exists(f, h) is answered from the cache: it issues *)
(* no Oracle query and returns the verdict of the first call.               *)
C2_Idempotent ==
    [][\A f \in DedupFingerprints, h \in Hypertables :
          (/\ LastOn(f, h).op = "alread_exists"
           /\ clock - LastOn(f, h).since < CacheTTL
           /\ AlreadExists(f, h))
          => (/\ pending' = pending
              /\ ~last'[CacheKey(h, f)].queried
              /\ last'[CacheKey(h, f)].verdict = LastOn(f, h).verdict)]_vars

(* C3: mark_inserted(f, h) followed immediately by already_exists(f, h):    *)
(* whatever the cache held for (h, f) before the mark, the call returns     *)
(* true, issues no Oracle query and leaves the cache as the mark left it.   *)
C3_MarkThenExists ==
    [][\A f \in DedupFingerprints, h \in Hypertables :
          (/\ LastOn(f, h).op = "mark_inserted"
           /\ LastOn(f, h).since = clock
           /\ AlreadExists(f, h))
          => (/\ last'[CacheKey(h, f)].op = "alread_exists"
              /\ last'[CacheKey(h, f)].verdict
              /\ ~last'[CacheKey(h, f)].queried
              /\ pending' = pending
              /\ cache' = cache)]_vars

(* C3, reached: after the clock has moved, an already_exists that followed  *)
(* a mark_inserted at the same time has returned true, with no query, from *)
(* the entry the mark wrote.                                               *)
C3_Witness ==
    \E key \in DOMAIN last :
        /\ last[key].op = "alread_exists"
        /\ last[key].after = "mark_inserted"
        /\ last[key].verdict
        /\ ~last[key].queried
        /\ last[key].since = clock
        /\ clock > 0
        /\ cache[key] = [time |-> clock, exists |-> TRUE]

(* C4: should_insert(observation, hypertable) returns (admit, fp): fp is    *)
(* the fingerprint of the observation under the bucket width and admit is   *)
(* the negation of what already_exists(fp, hypertable) gave.                *)
C4_ShouldInsertReturns ==
    lastInsert.op = "should_insert" =>
        /\ lastInsert.ok
        /\ lastInsert.fingerprint =
               GenerateFingerprint(lastInsert.data, TRUE, IntOf(DefaultBucket),
                                   DateTime("", 0, 0, 0, 0, "")).fingerprint
        /\ lastInsert.admit = ~lastInsert.exists

----------------------------------------------------------------------------
(* Claims about the listening run, under SpecListen; about emit, under SpecEmit *)

\* what the call co has become in the step: no call when it has ended
Successor(co) == sl' (-) (sl (-) SetToBag({co}))

(* C11: start_listening opens a listen for every channel of the registry    *)
(* before it waits.  Whenever a call comes back from listen_channel and     *)
(* goes into its sleep with running true, the transport is listening on     *)
(* every channel the registry held when the call began.                     *)
C11_ListensBeforeWaiting ==
    [][\A co \in Calls :
          (/\ co.pc = "acquire"
           /\ ListenChannel(co, TRUE)
           /\ running')
          => \A i \in 1..co.size : subscribers'[i].ch \in listeners']_vars

(* C12: when listen_channel fails during start_listening, the call sets    *)
(* running false and goes into cleanup() over every key of the registry;    *)
(* no later step of the call changes the running flag; and when its         *)
(* cleanup is over, having called unlisten_channel for each of those keys   *)
(* without raising, the call raises the failure.                            *)
C12_ListenFailureRaised ==
    [][\A co \in Calls :
          /\ (co.pc = "acquire" /\ ListenChannel(co, FALSE))
             => (/\ running' = FALSE
                 /\ IF Successor(co) = EmptyBag
                    THEN /\ slLast' = "listen failed"
                         /\ lastCleanup'.done
                         /\ lastCleanup'.attempted = get_active_channels(subscribers)
                         /\ ~lastCleanup'.raised
                    ELSE \A c \in BagToSet(Successor(co)) :
                            /\ c.pc = "unlisten"
                            /\ c.error = "listen failed"
                            /\ c.keys = get_active_channels(subscribers))
          /\ \A ok \in BOOLEAN :
                (co.error = "listen failed" /\ UnlistenChannel(co, ok))
                => (/\ running' = running
                    /\ IF Successor(co) = EmptyBag
                       THEN /\ slLast' = "listen failed"
                            /\ lastCleanup'.done
                            /\ lastCleanup'.attempted = co.keys
                            /\ ~lastCleanup'.raised
                       ELSE \A c \in BagToSet(Successor(co)) :
                               /\ c.pc = "unlisten"
                               /\ c.error = "listen failed"
                               /\ c.keys = co.keys)]_vars

(* C12, reached: a run over two channels ended by a listen failure, with    *)
(* unlisten_channel called for both and one listen left by a failed release *)
C12_Witness ==
    /\ slLast = "listen failed"
    /\ sl = EmptyBag
    /\ ~running
    /\ lastCleanup.done
    /\ Len(lastCleanup.attempted) = 2
    /\ lastCleanup.failed # {}
    /\ lastCleanup.failed \subseteq listeners

(* C13: when json.dumps or the transport notify fails inside emit, emit     *)
(* ends by raising to its caller.                                           *)
C13_EmitFailureSurfaced ==
    lastEmit.result \in {"notify failed", "not serializable"} => lastEmit.outcome = "raised"

(* C14: cleanup() goes over every key of the registry.  It begins at the    *)
(* first key that has a listen; when an unlisten_channel comes back, with   *)
(* the listen released or with a failure, only that listen may be gone, a   *)
(* released one is gone, and cleanup goes on to the next key that has a     *)
(* listen; it ends, without raising, only when no later key has one.        *)
C14_CleanupBestEffort ==
    [][/\ Cleanup
          => LET keys == get_active_channels(subscribers)
                 first == IF sl' = sl THEN Len(keys) + 1
                          ELSE (CHOOSE c \in BagToSet(sl' (-) sl) : TRUE).cl
             IN  /\ \A c \in BagToSet(sl' (-) sl) : c.keys = keys /\ c.pc = "unlisten"
                 /\ \A k \in 1..(first - 1) : keys[k] \notin listeners
                 /\ first <= Len(keys) => keys[first] \in listeners
                 /\ listeners' = listeners
                 /\ sl' = sl
                       => (/\ lastCleanup'.attempted = keys
                           /\ ~lastCleanup'.raised)
       /\ \A co \in Calls, ok \in BOOLEAN :
             UnlistenChannel(co, ok)
             => LET ch == co.keys[co.cl]
                    next == IF Successor(co) = EmptyBag THEN Len(co.keys) + 1
                            ELSE (CHOOSE c \in BagToSet(Successor(co)) : TRUE).cl
                IN  /\ \A c \in BagToSet(Successor(co)) : c.keys = co.keys /\ c.pc = "unlisten"
                    /\ listeners' \subseteq listeners
                    /\ listeners \ listeners' \subseteq {ch}
                    /\ (ok /\ ch \in listeners) => ch \notin listeners'
                    /\ next > co.cl
                    /\ \A k \in (co.cl + 1)..(next - 1) : co.keys[k] \notin listeners'
                    /\ next <= Len(co.keys) => co.keys[next] \in listeners'
                    /\ Successor(co) = EmptyBag
                          => (/\ lastCleanup'.attempted = co.keys
                              /\ ~lastCleanup'.raised)]_vars

(* C14, reached: a cleanup over two keys whose first release failed, so    *)
(* that the listen is still held, and which went on to release the second  *)
C14_Witness ==
    /\ lastCleanup.done
    /\ Len(lastCleanup.attempted) = 2
    /\ lastCleanup.failed = {lastCleanup.attempted[1]}
    /\ lastCleanup.attempted[1] \in listeners
    /\ lastCleanup.attempted[2] \notin listeners

(* C15, under SpecStop (fair scheduling, transport calls succeed): when     *)
(* stop() has been called while start_listening waits, start_listening      *)
(* eventually returns, and when it has returned the transport holds no      *)
(* listen.                                                                  *)
C15_StopReturns ==
    (\E co \in Calls : co.kind = "start_listening" /\ co.pc = "sleep" /\ ~running)
        ~> (sl = EmptyBag /\ slLast = "returned" /\ listeners = {})

----------------------------------------------------------------------------
(* Claims about the cache, its TTL and the Oracle, under SpecDedup *)

(* C16: when the Oracle query of already_exists fails, the call returns     *)
(* false and leaves the cache as it was; a should_insert that made the call *)
(* returns (true, fingerprint).                                             *)
C16_OracleFailureAdmits ==
    [][\A i \in 1..MaxPending :
          (i \in 1..Len(pending) /\ OracleAnswer(i, "error"))
          => (/\ last'[pending[i].key].op = "alread_exists"
              /\ last'[pending[i].key].verdict = FALSE
              /\ cache' = cache
              /\ pending[i].op = "should_insert"
                    => (/\ lastInsert'.ok
                        /\ lastInsert'.admit
                        /\ lastInsert'.fingerprint = pending[i].fingerprint))]_vars

(* C16, reached: a should_insert whose query failed has admitted the        *)
(* observation, the cache still holding an entry of the key older than TTL *)
C16_Witness ==
    /\ lastInsert.op = "should_insert"
    /\ lastInsert.ok /\ lastInsert.admit
    /\ \E h \in Hypertables :
          LET key == CacheKey(h, lastInsert.fingerprint)
          IN  /\ key \in DOMAIN last
              /\ last[key].oracle = "error"
              /\ last[key].since = clock
              /\ key \in DOMAIN cache
              /\ clock - cache[key].time >= CacheTTL

(* C17: already_exists answers from the cache exactly when the entry of the *)
(* key is present and its age is at most the TTL; for an absent entry and   *)
(* for every older one, ages of a day and more included, it queries the     *)
(* Oracle.                                                                  *)
C17_ServedWithinTTL ==
    [][\A f \in DedupFingerprints, h \in Hypertables :
          AlreadExists(f, h)
          => ((pending' = pending)
                 <=> (/\ CacheKey(h, f) \in DOMAIN cache
                      /\ clock - cache[CacheKey(h, f)].time <= CacheTTL))]_vars

(* C18: after cleanup_old_cache the cache holds no entry older than the     *)
(* TTL, whatever its age, and every entry of age at most the TTL is still   *)
(* there with its verdict and time.                                         *)
C18_CleanupRemovesExpired ==
    [][CleanupOldCache
          => (/\ \A key \in DOMAIN cache' : clock - cache'[key].time <= CacheTTL
              /\ \A key \in DOMAIN cache :
                    clock - cache[key].time <= CacheTTL
                       => (key \in DOMAIN cache' /\ cache'[key] = cache[key]))]_vars

(* C19: mark_inserted wins.  Once mark_inserted(f, h) has completed, with   *)
(* no clear_cache since, an already_exists(f, h) that starts less than the  *)
(* TTL later is answered true from the cache, whatever calls that began     *)
(* before the mark have completed after it.                                 *)
C19_MarkWins ==
    [][\A f \in DedupFingerprints, h \in Hypertables :
          (/\ LastOn(f, h).marked # NoMark
           /\ clock - LastOn(f, h).marked < CacheTTL
           /\ AlreadExists(f, h))
          => (/\ pending' = pending
              /\ last'[CacheKey(h, f)].verdict)]_vars

----------------------------------------------------------------------------
(* Claims about the registry, under SpecRegistry *)

\* how often x occurs in the list s
Occurrences(s, x) == Cardinality({i \in 1..Len(s) : s[i] = x})

(* C20: after any sequence of subscribe and unsubscribe calls that ends     *)
(* with unsubscribe(channel, cb), cb occurs at most once in the list of the *)
(* channel.                                                                 *)
C20_AtMostOnceAfterUnsubscribe ==
    [][\A ch \in Channels, cb \in Callbacks :
          (Unsubscribe(ch, cb) /\ HasChannel(subscribers', ch))
          => Occurrences(CallbacksOf(subscribers', ch), cb) <= 1]_vars

(* C21: unsubscribe(channel, cb) removes exactly one occurrence of cb from  *)
(* the list of the channel, the earliest one, and leaves the other entries  *)
(* in their order, the other channels and the order of the keys as they     *)
(* were; when cb is not in the list, or the channel has no key, the         *)
(* registry is unchanged.                                                   *)
C21_UnsubscribeRemovesEarliest ==
    [][\A ch \in Channels, cb \in Callbacks :
          Unsubscribe(ch, cb)
          => IF HasChannel(subscribers, ch)
                /\ Occurrences(CallbacksOf(subscribers, ch), cb) > 0
             THEN LET old == CallbacksOf(subscribers, ch)
                      k == CHOOSE j \in 1..Len(old) :
                              old[j] = cb /\ \A l \in 1..(j - 1) : old[l] # cb
                  IN  /\ Len(subscribers') = Len(subscribers)
                      /\ \A i \in 1..Len(subscribers) :
                            /\ subscribers'[i].ch = subscribers[i].ch
                            /\ subscribers[i].ch # ch => subscribers'[i] = subscribers[i]
                      /\ Len(CallbacksOf(subscribers', ch)) = Len(old) - 1
                      /\ \A i \in 1..(Len(old) - 1) :
                            CallbacksOf(subscribers', ch)[i] = IF i < k THEN old[i] ELSE old[i + 1]
             ELSE subscribers' = subscribers]_vars

(* C21 witness: a channel whose key is left with an empty list.  subscribe  *)
(* appends to the list of a key it creates, so only an unsubscribe that     *)
(* removed the one callback of the channel, and kept the key, leads here.   *)
C21_Witness ==
    \E ch \in Channels : HasChannel(subscribers, ch) /\ CallbacksOf(subscribers, ch) = <<>>

----------------------------------------------------------------------------
(* Claims about the order of dispatch, under SpecOrder *)

----------------------------------------------------------------------------
(* Claims about the key string, under SpecFingerprint *)

\* the observation of the worked example, executed at 10:mm:ss Z
Example(mm, ss) ==
    Observation("db1", "orders", "slow_query", Iso("2024-01-01", 10, mm, ss, 0, "Z"),
                "abc123", "", "")

ExampleKey == "db1:orders:slow_query:2024-01-01T10:00:00:abc123"

(* C23: with the width 5, the observation of the worked example at          *)
(* 10:03:30Z and the one at 10:04:50Z have the key string                   *)
(* "db1:orders:slow_query:2024-01-01T10:00:00:abc123", the bucketed time    *)
(* written without an offset, and the one at 10:05:01Z has another.         *)
C23_ExampleKeyString ==
    bucket_minutes = IntOf(DefaultBucket)
    => \A i \in 1..2 :
          fps[i].set
          => /\ fps[i].data \in {Example(3, 30), Example(4, 50)}
                   => (fps[i].result.ok /\ fps[i].result.key = ExampleKey)
             /\ fps[i].data = Example(5, 1)
                   => (fps[i].result.ok /\ fps[i].result.key # ExampleKey)

(* C24: generate_fingerprint is deterministic and leaves the engine alone.  *)
(* A call changes neither the width nor the cache, and it gives what the    *)
(* call before it gave when that one had the same observation, whatever     *)
(* the wall-clock times of the two calls, an observation with an            *)
(* unparsable timestamp included.                                           *)
C24_Deterministic ==
    [][\A data \in Observations, now \in Nows :
          Fingerprint(data, now)
          => (/\ bucket_minutes' = bucket_minutes
              /\ cacheVars' = cacheVars
              /\ (fps'[1].set /\ fps'[1].data = fps'[2].data)
                    => fps'[1].result = fps'[2].result)]_vars

\* the instant of an ISO timestamp in UTC: date, hour, minute, second, microsecond
UtcInstant(ts) == <<ts.date, UtcHour(ts), ts.mm, ts.ss, ts.us>>

(* C25: timestamps are brought to UTC before they are bucketed.  Two        *)
(* observations that agree on the identity fields, with timestamps that     *)
(* carry an offset and denote the same instant, have the same fingerprint.  *)
C25_NormalizedToUtc ==
    (/\ TwoIsoCalls
     /\ ~bucket_minutes.tuple
     /\ SameIdentity(fps[1].data, fps[2].data)
     /\ fps[1].data.ts.tz # "" /\ fps[2].data.ts.tz # ""
     /\ UtcInstant(fps[1].data.ts) = UtcInstant(fps[2].data.ts))
    => (/\ fps[1].result.ok /\ fps[2].result.ok
        /\ fps[1].result.key = fps[2].result.key
        /\ fps[1].result.fingerprint = fps[2].result.fingerprint)

\* the disambiguators of an observation, field by field
Disambiguators(o) == <<o.query_hash, o.index_name, o.column_name>>

(* C30: the key string tells the identifying fields apart.  Two             *)
(* observations with the same db_id, table_name, event_type and timestamp   *)
(* whose disambiguators differ, in the field that carries the value or in   *)
(* the place where a colon splits it, have different key strings and        *)
(* different fingerprints.                                                  *)
C30_KeyTellsFieldsApart ==
    (/\ fps[1].set /\ fps[2].set
     /\ fps[1].result.ok /\ fps[2].result.ok
     /\ fps[1].data.db_id = fps[2].data.db_id
     /\ fps[1].data.table_name = fps[2].data.table_name
     /\ fps[1].data.event_type = fps[2].data.event_type
     /\ fps[1].data.ts = fps[2].data.ts
     /\ Disambiguators(fps[1].data) # Disambiguators(fps[2].data))
    => (/\ fps[1].result.key # fps[2].result.key
        /\ fps[1].result.fingerprint # fps[2].result.fingerprint)

----------------------------------------------------------------------------
(* Claims about get_last_sync_time, under SpecSync *)

\* the times of the rows that the Oracle holds for the db_id
TimesOf(rows, db_id) == {r.time : r \in {r \in rows : r.db_id = db_id}}

(* C26: get_last_sync_time(db_id, hypertable) returns the greatest time     *)
(* that the Oracle holds for the db_id in the hypertable, and the absent    *)
(* value when it holds no row for it; it never raises when the Oracle       *)
(* fails; and the cache is as it was, whatever it holds.                    *)
C26_LastSyncTime ==
    [][\A db_id \in DbIds, h \in Hypertables, rows \in OracleRows, fails \in BOOLEAN :
          GetLastSyncTime(db_id, h, rows, fails)
          => (/\ cache' = cache
              /\ ~lastSync'.raised
              /\ ~fails
                   => IF TimesOf(rows, db_id) = {}
                      THEN lastSync'.value = NoTime
                      ELSE /\ lastSync'.value.found
                           /\ lastSync'.value.time \in TimesOf(rows, db_id)
                           /\ \A t \in TimesOf(rows, db_id) : t <= lastSync'.value.time)]_vars

(* C26 witness: a call for db1 over an Oracle that holds two rows of db1    *)
(* and a later one of db2 returned the later time of db1, beside a cache    *)
(* that holds an entry.                                                     *)
C26_Witness ==
    /\ lastSync.called
    /\ lastSync.query.db_id = "db1"
    /\ lastSync.rows = {[db_id |-> "db1", time |-> TickSeconds],
                        [db_id |-> "db2", time |-> CacheTTL]}
    /\ lastSync.value = TimeValue(TickSeconds)
    /\ ~lastSync.raised
    /\ DOMAIN cache # {}

----------------------------------------------------------------------------
(* Claims about the frame of the registry, under SpecFrame *)

(* C27: the registry is changed only by subscribe and unsubscribe.  Every   *)
(* step of handle_event and of its tasks, of emit, start_listening, stop,   *)
(* cleanup, get_active_channels and get_subscriber_count, whatever the      *)
(* payload, the outcomes of the callbacks and of the transport and the      *)
(* channel asked about, leaves the mapping from channels to callback lists  *)
(* as it was.                                                               *)
C27_RegistryFrame ==
    [][\/ subscribers' = subscribers
       \/ \E ch \in Channels, cb \in Callbacks : Subscribe(ch, cb)
       \/ \E ch \in Channels, cb \in Callbacks : Unsubscribe(ch, cb)]_vars

(* C27 witness: get_subscriber_count of a channel that was never subscribed *)
(* returned 0 and the registry holds the one key it held before.            *)
C27_Witness ==
    /\ lastRead = [op |-> "get_subscriber_count", channel |-> "performance_events", count |-> 0]
    /\ subscribers = <<[ch |-> "monitoring_events", cbs |-> <<"cb1">>]>>

----------------------------------------------------------------------------
(* Claims about the running flag, under SpecListen *)

(* C28: whenever a start_listening call that passed the guard has returned  *)
(* or raised, after stop(), after a listen failure or over a registry with  *)
(* no channel, and no call is in progress, the running flag is false.       *)
C28_NotRunningAfterRun ==
    (sl = EmptyBag /\ slLast \in {"returned", "listen failed", "RuntimeError"}) => ~running

(* C29: a start_listening call made while the router is running returns at  *)
(* once: it opens no listen, runs no cleanup, leaves the running flag and   *)
(* the call in progress as they are, and the transport holds the listens it *)
(* held.                                                                    *)
C29_RejectedCallChangesNothing ==
    [][StartListeningRunning
          => (/\ slLast' = "already_running"
              /\ listeners' = listeners
              /\ lastCleanup' = lastCleanup
              /\ running' = running
              /\ sl' = sl
              /\ subscribers' = subscribers)]_vars

(* C29 witness: a call was rejected while the active run waits, and the     *)
(* listen of the run is held.                                               *)
C29_Witness ==
    /\ slLast = "already_running"
    /\ running
    /\ \E co \in Calls : co.kind = "start_listening" /\ co.pc = "sleep"
    /\ listeners # {}
    /\ ~lastCleanup.done

----------------------------------------------------------------------------
(* Claims about the channels of the registry, under SpecRegistry *)

(* C31: after any sequence of subscribe and unsubscribe calls, every        *)
(* channel that get_active_channels reports has a subscriber count of at    *)
(* least 1.                                                                 *)
C31_ActiveChannelsHaveSubscribers ==
    \A i \in 1..Len(get_active_channels(subscribers)) :
        get_subscriber_count(subscribers, get_active_channels(subscribers)[i]) >= 1

====
